---- MODULE Spec2Model ----
(***************************************************************************)
(* Model of utils/call_llm.py: call_llm(prompt, use_cache, provider) and   *)
(* update_cache(prompt, response_text), the JSON cache file llm_cache.json *)
(* they share, the llm_logger log and a stub of the Azure OpenAI backend.  *)
(*                                                                         *)
(* A Python str is a sequence of symbols (each symbol is a TLA+ string     *)
(* standing for a character; a literal of the source is written as one     *)
(* symbol).  A Python value is a record [t, v] tagged with its type, and   *)
(* the text of the cache file is a record [t, v] tagged with its JSON      *)
(* syntax, so that json.load and json.dump are conversions between the     *)
(* two and not the identity.                                               *)
(***************************************************************************)
EXTENDS Integers, Sequences, FiniteSets, TLC

\* ------------------------------------------------------------------ bounds

\* Number of call_llm invocations a behaviour starts.
MaxCalls == 2

\* ------------------------------------------------------- program constants

\* The preview length of the two log lines, cache[prompt][:100] and
\* response_text[:100].
PreviewLen == 100

\* ------------------------------------------------------------ input domain

Threads == {"t1", "t2"}
MainThread == "t1"

Prompts == {<<"hello">>, <<"bye">>}
Responses == {<<"world">>, <<"moon">>}
ClientErrors == {<<"timeout">>}
Providers == {<<"azure">>, <<"gemini">>, <<"unknown-provider">>}

\* ------------------------------------------------------------ Python values

PyStr(s) == [t |-> "str", v |-> s]
PyInt(digits) == [t |-> "int", v |-> digits]
PyNone == [t |-> "NoneType", v |-> <<>>]
PyList(items) == [t |-> "list", v |-> items]
\* A dict keeps its items in insertion order; its keys are distinct.
PyDict(items) == [t |-> "dict", v |-> items]
EmptyDict == PyDict(<<>>)

Min(a, b) == IF a < b THEN a ELSE b

DictHasKey(d, k) == \E i \in 1..Len(d.v) : d.v[i].k = k

DictGet(d, k) == d.v[CHOOSE i \in 1..Len(d.v) : d.v[i].k = k].val

\* d[k] = val on a dict: an existing key keeps its place and takes the new
\* value, a new key goes last.
DictSet(d, k, val) ==
    IF DictHasKey(d, k)
    THEN PyDict([i \in 1..Len(d.v) |->
                    IF d.v[i].k = k THEN [k |-> k, val |-> val] ELSE d.v[i]])
    ELSE PyDict(Append(d.v, [k |-> k, val |-> val]))

\* sub in s for two str: s holds sub as a contiguous run.
IsSubstring(sub, s) ==
    \E i \in 0..(Len(s) - Len(sub)) : SubSeq(s, i + 1, i + Len(sub)) = sub

\* An exception in flight.
Exc(type, msg) == [type |-> type, msg |-> msg]
NoExc == Exc("none", <<>>)

\* ---------------------------------------------------------------- JSON text

JObject(members) == [t |-> "object", v |-> members]
JString(s) == [t |-> "string", v |-> s]
JNumber(digits) == [t |-> "number", v |-> digits]
JNull == [t |-> "null", v |-> <<>>]
JArray(items) == [t |-> "array", v |-> items]
\* Bytes that are no JSON document (an empty or truncated file, say).
Garbage == [t |-> "garbage", v |-> <<>>]

Member(k, val) == [k |-> k, val |-> val]

RECURSIVE JsonDecode(_)
RECURSIVE DecodeMembers(_, _)

\* The dict of an object's members, read left to right: a repeated key keeps
\* its first place and its last value.
DecodeMembers(members, acc) ==
    IF members = <<>> THEN acc
    ELSE DecodeMembers(Tail(members),
                       DictSet(acc, Head(members).k,
                               JsonDecode(Head(members).val)))

\* json.load on a document that parses: the Python value of the text.
JsonDecode(j) ==
    CASE j.t = "object" -> DecodeMembers(j.v, EmptyDict)
      [] j.t = "array"  -> PyList([i \in 1..Len(j.v) |-> JsonDecode(j.v[i])])
      [] j.t = "string" -> PyStr(j.v)
      [] j.t = "number" -> PyInt(j.v)
      [] OTHER          -> PyNone

RECURSIVE JsonEncode(_)

\* json.dump: the text of a Python value.
JsonEncode(x) ==
    CASE x.t = "dict" -> JObject([i \in 1..Len(x.v) |->
                                    Member(x.v[i].k, JsonEncode(x.v[i].val))])
      [] x.t = "list" -> JArray([i \in 1..Len(x.v) |-> JsonEncode(x.v[i])])
      [] x.t = "str"  -> JString(x.v)
      [] x.t = "int"  -> JNumber(x.v)
      [] OTHER        -> JNull

\* ------------------------------------------------------------ the cache file

\* The file llm_cache.json: whether it exists, whether open(..., 'r') on it
\* succeeds, and its content.
File(exists, readable, text) ==
    [exists |-> exists, readable |-> readable, text |-> text]
MissingFile == File(FALSE, FALSE, Garbage)

HelloWorld == Member(<<"hello">>, JString(<<"world">>))

\* Contents the file may have when the program starts: absent, unreadable,
\* unparseable, a well-formed cache, an object with a repeated key, and
\* documents that parse but are no mapping from str to str.
InitFiles ==
    { MissingFile,
      File(TRUE, FALSE, JObject(<<HelloWorld>>)),
      File(TRUE, TRUE, Garbage),
      File(TRUE, TRUE, JObject(<<>>)),
      File(TRUE, TRUE, JObject(<<HelloWorld>>)),
      File(TRUE, TRUE, JObject(<<HelloWorld,
                                 Member(<<"bye">>, JString(<<"moon">>))>>)),
      File(TRUE, TRUE, JObject(<<HelloWorld,
                                 Member(<<"hello">>, JString(<<"moon">>))>>)),
      File(TRUE, TRUE, JObject(<<Member(<<"hello">>, JNumber(<<"5">>))>>)),
      File(TRUE, TRUE, JObject(<<Member(<<"hello">>, JNull)>>)),
      File(TRUE, TRUE, JObject(<<Member(<<"hello">>,
                                        JArray(<<JString(<<"world">>)>>))>>)),
      File(TRUE, TRUE, JNumber(<<"5">>)),
      File(TRUE, TRUE, JNull),
      File(TRUE, TRUE, JArray(<<JString(<<"hello">>)>>)),
      File(TRUE, TRUE, JString(<<"say", "hello">>)) }

\* ------------------------------------------------- Python on the loaded cache

TypeError(msg) == Exc("TypeError", <<msg>>)

\* x[:100] works on a str and on a list.
Sliceable(x) == x.t \in {"str", "list"}

Preview(x) == [t |-> x.t, v |-> SubSeq(x.v, 1, Min(PreviewLen, Len(x.v)))]

RECURSIVE Repr(_)
RECURSIVE ReprItems(_)

ReprItems(items) ==
    IF items = <<>> THEN <<>>
    ELSE Repr(Head(items))
         \o (IF Len(items) > 1 THEN <<", ">> ELSE <<>>)
         \o ReprItems(Tail(items))

\* repr(x), which is what an f-string shows of the items of a list.
Repr(x) ==
    CASE x.t = "str"  -> <<"'">> \o x.v \o <<"'">>
      [] x.t = "list" -> <<"[">> \o ReprItems(x.v) \o <<"]">>
      [] x.t = "int"  -> x.v
      [] OTHER        -> <<"None">>

\* What an f-string shows of x: a str as it is, anything else by repr.
Format(x) == IF x.t = "str" THEN x.v ELSE Repr(x)

\* prompt in cache, for whatever json.load returned.
InRaises(cache) == cache.t \in {"int", "NoneType"}

In(prompt, cache) ==
    CASE cache.t = "dict" -> DictHasKey(cache, prompt)
      [] cache.t = "list" -> \E i \in 1..Len(cache.v) : cache.v[i] = PyStr(prompt)
      [] cache.t = "str"  -> IsSubstring(prompt, cache.v)
      [] OTHER            -> FALSE

\* cache[prompt] with a str for index works on a dict only.
GetItemRaises(cache) == cache.t # "dict"

\* ------------------------------------------------------------------ the log

LogRec(level, msg) == [level |-> level, msg |-> msg]

\* ------------------------------------------------------------- the backend

\* What client.chat.completions.create does with one request: it answers
\* with a message whose content is a str, with a message without content
\* (content is None), or it raises.
Answer(content) == [kind |-> "answer", content |-> content, text |-> <<>>]
Failure(text) == [kind |-> "error", content |-> PyNone, text |-> text]
NoBackend == [kind |-> "none", content |-> PyNone, text |-> <<>>]

BackendOutcomes ==
    {Answer(PyStr(r)) : r \in Responses}
        \cup {Answer(PyNone)}
        \cup {Failure(e) : e \in ClientErrors}

\* ------------------------------------------------------- pieces of call_llm

\* Variant of PromptLog that logs the prompt at level DEBUG: the logger is
\* set to INFO and drops the record.
PromptLogDebug(prompt) == <<>>

\* logger.info(f"PROMPT: {prompt}"): the records the first statement of
\* call_llm writes.
PromptLog(prompt) == <<LogRec("INFO", <<"PROMPT: ">> \o prompt)>>

\* Variant of ConsultsCache with the flag ignored: the cache is consulted on
\* every call.
ConsultsCacheAlways(use_cache) == TRUE

\* if use_cache: the cache is consulted only when the flag is set.
ConsultsCache(use_cache) == use_cache

\* Variant of UpdatesCache with the flag ignored: every answer is stored.
UpdatesCacheAlways(use_cache) == TRUE

\* if use_cache: update_cache is called only when the flag is set.
UpdatesCache(use_cache) == use_cache

\* Variant of LoadCache without the try around open and json.load: the
\* failure of either leaves call_llm.
LoadCacheNoTry(f) ==
    IF ~f.exists
    THEN [cache |-> EmptyDict, warned |-> FALSE, exc |-> NoExc]
    ELSE IF f.readable /\ f.text # Garbage
    THEN [cache |-> JsonDecode(f.text), warned |-> FALSE, exc |-> NoExc]
    ELSE [cache |-> EmptyDict, warned |-> FALSE,
          exc |-> Exc(IF f.readable THEN "JSONDecodeError" ELSE "PermissionError",
                      <<"llm_cache.json">>)]

\* The load in call_llm: cache = {} unless the file exists and json.load of
\* it succeeds; a failing open or parse is caught and logged as a warning.
LoadCache(f) ==
    IF ~f.exists
    THEN [cache |-> EmptyDict, warned |-> FALSE, exc |-> NoExc]
    ELSE IF f.readable /\ f.text # Garbage
    THEN [cache |-> JsonDecode(f.text), warned |-> FALSE, exc |-> NoExc]
    ELSE [cache |-> EmptyDict, warned |-> TRUE, exc |-> NoExc]

\* Variant of CacheLookup without the return under the hit: the preview is
\* logged and the invocation falls through to the dispatch.
CacheLookupNoReturn(cache, prompt) ==
    IF InRaises(cache)
    THEN [kind |-> "raise", value |-> PyNone, log |-> <<>>,
          exc |-> TypeError("argument of type is not iterable")]
    ELSE [kind |-> "miss", value |-> PyNone, log |-> <<>>, exc |-> NoExc]

\* if prompt in cache: log the preview of cache[prompt], return cache[prompt].
\* kind is "hit" (value is returned), "miss" (fall through to the dispatch) or
\* "raise" (exc leaves call_llm: nothing around these lines catches it).
CacheLookup(cache, prompt) ==
    IF InRaises(cache)
    THEN [kind |-> "raise", value |-> PyNone, log |-> <<>>,
          exc |-> TypeError("argument of type is not iterable")]
    ELSE IF ~In(prompt, cache)
    THEN [kind |-> "miss", value |-> PyNone, log |-> <<>>, exc |-> NoExc]
    ELSE IF GetItemRaises(cache)
    THEN [kind |-> "raise", value |-> PyNone, log |-> <<>>,
          exc |-> TypeError("indices must be integers")]
    ELSE IF ~Sliceable(DictGet(cache, prompt))
    THEN [kind |-> "raise", value |-> PyNone, log |-> <<>>,
          exc |-> TypeError("object is not subscriptable")]
    ELSE [kind |-> "hit", value |-> DictGet(cache, prompt),
          log |-> <<LogRec("INFO", <<"CACHE HIT: ">>
                            \o Format(Preview(DictGet(cache, prompt)))
                            \o <<"...">>)>>,
          exc |-> NoExc]

\* Variant of AzureErrorMsg that drops the text of the error it caught.
AzureErrorMsgNoText(text) == <<"Azure OpenAI error: ">>

\* except Exception as e: the message of the failure that leaves call_llm.
AzureErrorMsg(text) == <<"Azure OpenAI error: ">> \o text

\* Variant of AzureRequests with the request sent a second time.
AzureRequestsTwice == 1 + 1

\* The number of requests the azure branch sends to the backend.
AzureRequests == 1

\* The try block of the azure branch up to the log of the response: what the
\* backend did decides whether response_text is there (ok) or the except
\* clause runs with the text of the error it caught.
AzureTry(outcome) ==
    IF outcome.kind = "error"
    THEN [ok |-> FALSE, response_text |-> PyNone, text |-> outcome.text,
          log |-> <<>>]
    ELSE IF ~Sliceable(outcome.content)
    THEN [ok |-> FALSE, response_text |-> PyNone,
          text |-> <<"object is not subscriptable">>, log |-> <<>>]
    ELSE [ok |-> TRUE, response_text |-> outcome.content, text |-> <<>>,
          log |-> <<LogRec("INFO", <<"AZURE RESPONSE: ">>
                            \o Format(Preview(outcome.content))
                            \o <<"...">>)>>]

\* Variant of OtherProvider without the gemini branch: every provider but
\* "azure" takes the else.
OtherProviderNoGemini(provider) ==
    [exc |-> Exc("ValueError", <<"Unsupported provider: ">> \o provider),
     log |-> <<>>]

\* Variant of OtherProvider whose ValueError does not name the provider.
OtherProviderNoName(provider) ==
    IF provider = <<"gemini">>
    THEN [exc |-> Exc("NotImplementedError",
                      <<"Gemini support is currently disabled. Please use 'azure' provider.">>),
          log |-> <<LogRec("WARNING",
                      <<"Gemini support is currently disabled due to authentication issues.">>)>>]
    ELSE [exc |-> Exc("ValueError", <<"Unsupported provider: ">>),
          log |-> <<>>]

\* The branches after the azure one: the exception each raises and what it
\* logs first.
OtherProvider(provider) ==
    IF provider = <<"gemini">>
    THEN [exc |-> Exc("NotImplementedError",
                      <<"Gemini support is currently disabled. Please use 'azure' provider.">>),
          log |-> <<LogRec("WARNING",
                      <<"Gemini support is currently disabled due to authentication issues.">>)>>]
    ELSE [exc |-> Exc("ValueError", <<"Unsupported provider: ">> \o provider),
          log |-> <<>>]

\* ---------------------------------------------------- pieces of update_cache

\* Variant of UpdateCacheLoad that never reads the file: update_cache starts
\* from an empty cache each time.
UpdateCacheLoadEmpty(f) == EmptyDict

\* The load in update_cache: as in call_llm, but a failure is passed over
\* without a log line.
UpdateCacheLoad(f) ==
    IF f.exists /\ f.readable /\ f.text # Garbage
    THEN JsonDecode(f.text)
    ELSE EmptyDict

\* cache[prompt] = response_text works on a dict only.
SetItemRaises(cache) == cache.t # "dict"

\* Variant of UpdatedCache that stores the prompt in place of the response.
UpdatedCacheStoresPrompt(cache, prompt, response_text) ==
    DictSet(cache, prompt, PyStr(prompt))

\* Variant of UpdatedCache that writes back the new entry alone.
UpdatedCacheOnlyEntry(cache, prompt, response_text) ==
    DictSet(EmptyDict, prompt, response_text)

\* Variant of UpdatedCache with key and value exchanged.
UpdatedCacheSwapped(cache, prompt, response_text) ==
    DictSet(cache, response_text.v, PyStr(prompt))

\* Variant of UpdatedCache that writes the loaded cache back without the
\* new entry.
UpdatedCacheNoEntry(cache, prompt, response_text) == cache

\* The cache update_cache writes back: the loaded one with the entry set.
UpdatedCache(cache, prompt, response_text) ==
    DictSet(cache, prompt, response_text)

\* What open(cache_file, 'w') and json.dump can do: write the document, fail
\* in open (the file is left as it was), or fail after open truncated the
\* file and before the document was complete.
WriteOutcomes == {"ok", "open_fail", "write_fail"}

WriteFile(f, text, w) ==
    CASE w = "ok"         -> File(TRUE, IF f.exists THEN f.readable ELSE TRUE, text)
      [] w = "write_fail" -> File(TRUE, IF f.exists THEN f.readable ELSE TRUE, Garbage)
      [] OTHER            -> f

\* Variant of UpdateCacheExcept that raises the failure again after logging.
UpdateCacheReraise(text) ==
    [raised |-> TRUE,
     log |-> <<LogRec("ERROR", <<"Failed to save cache: ">> \o text)>>]

\* except Exception as e in update_cache: the failure is logged and does not
\* leave the function.
UpdateCacheExcept(text) ==
    [raised |-> FALSE,
     log |-> <<LogRec("ERROR", <<"Failed to save cache: ">> \o text)>>]

\* -------------------------------------------------------------------- state

VARIABLES
    file,           \* the cache file llm_cache.json
    log,            \* the records llm_logger has written, oldest first
    backendCalls,   \* requests the backend has received (the stub's count)
    inv,            \* per thread: its call_llm invocation in progress
    history,        \* the invocations that ended, in the order they ended
    started         \* invocations started so far

vars == <<file, log, backendCalls, inv, history, started>>

\* A thread outside call_llm.  pc names the line the thread is at; prompt,
\* use_cache, provider, cache and response_text are the locals of call_llm
\* and update_cache; the rest records what the invocation did.
IdleInv ==
    [pc |-> "idle", prompt |-> <<>>, use_cache |-> FALSE, provider |-> <<>>,
     cache |-> EmptyDict, response_text |-> PyNone,
     netCalls |-> 0, cacheReads |-> 0, cacheWrites |-> 0,
     fileAtCall |-> MissingFile, logAt |-> 0, callsAt |-> 0,
     backend |-> NoBackend,
     lookup |-> "none", dispatched |-> FALSE, save |-> "none",
     fileAtLoad |-> MissingFile]

\* The record of an invocation that ended: i is the invocation, outcome is
\* "return" (of value) or "raise" (of exc).
Ended(i, outcome, value, exc, callsAfter, logAfter, fileAfter) ==
    [prompt |-> i.prompt, use_cache |-> i.use_cache, provider |-> i.provider,
     outcome |-> outcome, value |-> value, exc |-> exc,
     netCalls |-> i.netCalls, cacheReads |-> i.cacheReads,
     cacheWrites |-> i.cacheWrites, fileAtCall |-> i.fileAtCall,
     fileAfter |-> fileAfter, logAt |-> i.logAt, logEnd |-> Len(logAfter),
     callsAt |-> i.callsAt,
     backend |-> i.backend, lookup |-> i.lookup,
     dispatched |-> i.dispatched, save |-> i.save, callsAfter |-> callsAfter,
     fileAtLoad |-> i.fileAtLoad]

Init ==
    /\ file \in InitFiles
    /\ log = <<>>
    /\ backendCalls = 0
    /\ inv = [p \in Threads |-> IdleInv]
    /\ history = <<>>
    /\ started = 0

\* ------------------------------------------------------------------ actions

\* call_llm is entered: the prompt is logged before anything else.
Invoke(p) ==
    /\ inv[p].pc = "idle"
    /\ started < MaxCalls
    /\ \E prompt \in Prompts, use_cache \in BOOLEAN, provider \in Providers :
          inv' = [inv EXCEPT ![p] =
                    [IdleInv EXCEPT !.pc = "L45", !.prompt = prompt,
                                    !.use_cache = use_cache,
                                    !.provider = provider,
                                    !.fileAtCall = file, !.logAt = Len(log),
                                    !.callsAt = backendCalls]]
    /\ log' = log \o PromptLog(inv'[p].prompt)
    /\ started' = started + 1
    /\ UNCHANGED <<file, backendCalls, history>>

\* The cache check of call_llm: skipped without use_cache; with it the file is
\* loaded and a prompt found in it ends the invocation.
CheckCache(p) ==
    LET i == inv[p]
        ld == LoadCache(file)
        lk == CacheLookup(ld.cache, i.prompt)
        warning == IF ld.warned
                   THEN <<LogRec("WARNING",
                            <<"Failed to load cache, starting with empty cache">>)>>
                   ELSE <<>>
        read == [i EXCEPT !.cacheReads = i.cacheReads + 1, !.cache = ld.cache]
    IN  /\ i.pc = "L45"
        /\ IF ~ConsultsCache(i.use_cache)
           THEN /\ inv' = [inv EXCEPT ![p].pc = "L61"]
                /\ UNCHANGED <<log, history>>
           ELSE IF ld.exc # NoExc
           THEN /\ log' = log
                /\ inv' = [inv EXCEPT ![p] = IdleInv]
                /\ history' = Append(history,
                      Ended([read EXCEPT !.lookup = "raise"], "raise", PyNone,
                            ld.exc, backendCalls, log', file))
           ELSE IF lk.kind = "miss"
           THEN /\ log' = log \o warning
                /\ inv' = [inv EXCEPT ![p] =
                             [read EXCEPT !.pc = "L61", !.lookup = "miss"]]
                /\ UNCHANGED history
           ELSE /\ log' = log \o warning \o lk.log
                /\ inv' = [inv EXCEPT ![p] = IdleInv]
                /\ history' = Append(history,
                      Ended([read EXCEPT !.lookup = lk.kind],
                            IF lk.kind = "hit" THEN "return" ELSE "raise",
                            lk.value, lk.exc, backendCalls, log', file))
        /\ UNCHANGED <<file, backendCalls, started>>

\* The dispatch on provider.  The azure branch sends the request and, when
\* the backend answered, logs the answer and returns it, by way of
\* update_cache with use_cache; when the backend failed it logs and raises.
\* The other two branches raise without a request.
Dispatch(p) ==
    LET i == inv[p]
        at == [i EXCEPT !.dispatched = TRUE]
    IN  /\ i.pc = "L61"
        /\ \/ /\ i.provider = <<"azure">>
              /\ \E o \in BackendOutcomes :
                    LET r == AzureTry(o)
                        sent == [at EXCEPT !.netCalls = i.netCalls + AzureRequests,
                                           !.backend = o,
                                           !.response_text = r.response_text]
                    IN  /\ backendCalls' = backendCalls + AzureRequests
                        /\ IF r.ok /\ UpdatesCache(i.use_cache)
                           THEN /\ log' = log \o r.log
                                /\ inv' = [inv EXCEPT ![p] =
                                             [sent EXCEPT !.pc = "L98"]]
                                /\ UNCHANGED history
                           ELSE IF r.ok
                           THEN /\ log' = log \o r.log
                                /\ inv' = [inv EXCEPT ![p] = IdleInv]
                                /\ history' = Append(history,
                                      Ended(sent, "return", r.response_text,
                                            NoExc, backendCalls', log', file))
                           ELSE /\ log' = Append(log,
                                      LogRec("ERROR", AzureErrorMsg(r.text)))
                                /\ inv' = [inv EXCEPT ![p] = IdleInv]
                                /\ history' = Append(history,
                                      Ended(sent, "raise", PyNone,
                                            Exc("Exception", AzureErrorMsg(r.text)),
                                            backendCalls', log', file))
           \/ /\ i.provider # <<"azure">>
              /\ log' = log \o OtherProvider(i.provider).log
              /\ inv' = [inv EXCEPT ![p] = IdleInv]
              /\ history' = Append(history,
                    Ended(at, "raise", PyNone, OtherProvider(i.provider).exc,
                          backendCalls, log', file))
              /\ UNCHANGED backendCalls
        /\ UNCHANGED <<file, started>>

\* update_cache, first half: the cache is loaded from the file again.
UpdateLoad(p) ==
    LET i == inv[p]
    IN  /\ i.pc = "L98"
        /\ inv' = [inv EXCEPT ![p] =
                     [i EXCEPT !.pc = "L108", !.cache = UpdateCacheLoad(file),
                               !.cacheReads = i.cacheReads + 1,
                               !.fileAtLoad = file]]
        /\ UNCHANGED <<file, log, backendCalls, history, started>>

\* How call_llm ends after update_cache: update_cache is called inside the
\* try block, so an exception leaving it would be caught, logged and raised
\* again as the azure failure; otherwise response_text is returned.
AfterUpdate(p, i, ex) ==
    /\ inv' = [inv EXCEPT ![p] = IdleInv]
    /\ IF ex.raised
       THEN /\ log' = Append(log \o ex.log,
                        LogRec("ERROR", AzureErrorMsg(<<"Failed to save cache">>)))
            /\ history' = Append(history,
                  Ended(i, "raise", PyNone,
                        Exc("Exception", AzureErrorMsg(<<"Failed to save cache">>)),
                        backendCalls, log', file'))
       ELSE /\ log' = log \o ex.log
            /\ history' = Append(history,
                  Ended(i, "return", i.response_text, NoExc,
                        backendCalls, log', file'))

\* update_cache, second half, and the return of call_llm: the entry is set
\* and the whole cache written back; a failure of either is caught.
UpdateSave(p) ==
    LET i == inv[p]
    IN  /\ i.pc = "L108"
        /\ IF SetItemRaises(i.cache)
           THEN /\ file' = file
                /\ AfterUpdate(p, [i EXCEPT !.save = "type_error"],
                      UpdateCacheExcept(<<"object does not support item assignment">>))
           ELSE \E w \in WriteOutcomes :
                /\ file' = WriteFile(file,
                              JsonEncode(UpdatedCache(i.cache, i.prompt, i.response_text)),
                              w)
                /\ AfterUpdate(p, [i EXCEPT !.save = w,
                                            !.cacheWrites = i.cacheWrites + 1],
                      IF w = "ok"
                      THEN [raised |-> FALSE, log |-> <<>>]
                      ELSE UpdateCacheExcept(<<"OSError">>))
        /\ UNCHANGED <<backendCalls, started>>

\* ------------------------------------------------------------ specifications

Step(p) ==
    \/ Invoke(p)
    \/ CheckCache(p)
    \/ Dispatch(p)
    \/ UpdateLoad(p)
    \/ UpdateSave(p)

\* One thread calls call_llm again and again: each invocation ends before the
\* next one starts.
Next == Step(MainThread)

Spec == Init /\ [][Next]_vars

\* Two threads call call_llm with no lock on the cache file: their steps
\* interleave at every access to the file, the log and the backend.
NextConc == \E p \in Threads : Step(p)

SpecConc == Init /\ [][NextConc]_vars

\* ---------------------------------------------------------------- properties

\* The invocations that ended.
Calls == {history[n] : n \in 1..Len(history)}


\* The successive pairs of invocations: history[n] ended and the thread's
\* next invocation is history[n + 1].
Pairs == 1..(Len(history) - 1)

\* The file can be opened for reading and holds a JSON object.
HoldsMapping(f) == f.exists /\ f.readable /\ f.text.t = "object"

\* P is a key of the mapping stored in the file.
KeyOfFile(P, f) ==
    HoldsMapping(f) /\ \E m \in 1..Len(f.text.v) : f.text.v[m].k = P

\* The JSON value the file stores for key P (the last member named P).
StoredFor(P, f) ==
    f.text.v[CHOOSE m \in 1..Len(f.text.v) :
                /\ f.text.v[m].k = P
                /\ \A m2 \in (m + 1)..Len(f.text.v) : f.text.v[m2].k # P].val

\* The file is absent, cannot be opened for reading or does not parse.
Unloadable(f) == ~f.exists \/ ~f.readable \/ f.text = Garbage

\* Every member of the object in the file has a string for value.
StringValued(f) ==
    \A m \in 1..Len(f.text.v) : f.text.v[m].val.t = "string"

\* The file is there and is no cache: it cannot be read, does not parse, or
\* parses to something other than a mapping from strings to strings.
CorruptFile(f) ==
    /\ f.exists
    /\ \/ ~f.readable
       \/ f.text = Garbage
       \/ f.text.t # "object"
       \/ ~StringValued(f)

\* The backend answered the invocation's request with a completion string.
AnsweredWithText(c) == c.backend.kind = "answer" /\ c.backend.content.t = "str"

\* The failures that come from the provider dispatch.
ProviderFaults == {"Exception", "NotImplementedError", "ValueError"}

\* The log records an invocation wrote.
LogOf(c) == {log[k] : k \in (c.logAt + 1)..c.logEnd}

\* -- C1 ---------------------------------------------------------------------

\* A miss on P with use_cache answered by the backend with R, followed by a
\* second call_llm(P, True, provider).
MissThenRepeat(n) ==
    /\ history[n].use_cache /\ history[n + 1].use_cache
    /\ history[n + 1].prompt = history[n].prompt
    /\ history[n + 1].provider = history[n].provider
    /\ ~KeyOfFile(history[n].prompt, history[n].fileAtCall)
    /\ AnsweredWithText(history[n])

\* C1 as claimed: for a prompt P that is no key of the cache file, use_cache
\* and a backend answering R, call_llm returns R and the next call_llm for P
\* returns R too with the backend call count still at 1.  (Stated for a cache
\* file that is absent or a mapping from strings to strings.)
C1_Original ==
    \A n \in Pairs :
        (MissThenRepeat(n) /\ ~CorruptFile(history[n].fileAtCall)) =>
            /\ history[n].outcome = "return"
            /\ history[n].value = history[n].backend.content
            /\ history[n + 1].outcome = "return"
            /\ history[n + 1].value = history[n].backend.content
            /\ history[n + 1].callsAfter = history[n].callsAt + 1

\* C1 amended: the first call returns R in every case; the next call for P
\* returns R without a second backend call when update_cache stored the entry
\* (the entry could be set and the write succeeded, on a file that can be read
\* back).
C1_CachedAfterMiss ==
    \A n \in Pairs :
        MissThenRepeat(n) =>
            /\ history[n].outcome = "return"
            /\ history[n].value = history[n].backend.content
            /\ history[n].callsAfter = history[n].callsAt + 1
            /\ (history[n].save = "ok" /\ history[n].fileAfter.readable) =>
                  /\ history[n + 1].outcome = "return"
                  /\ history[n + 1].value = history[n].backend.content
                  /\ history[n + 1].netCalls = 0
                  /\ history[n + 1].callsAfter = history[n].callsAt + 1

\* A miss answered with "world", stored, and the next call for the prompt
\* served from the cache.
C1_Witness ==
    \E n \in Pairs :
        /\ MissThenRepeat(n)
        /\ history[n].save = "ok"
        /\ history[n].value = PyStr(<<"world">>)
        /\ history[n + 1].lookup = "hit"
        /\ history[n + 1].value = PyStr(<<"world">>)
        /\ backendCalls = 1

\* -- C2 ---------------------------------------------------------------------

\* The invocation consults the cache and the file stores a string for its
\* prompt.
StoredString(c) ==
    /\ c.use_cache
    /\ KeyOfFile(c.prompt, c.fileAtCall)
    /\ StoredFor(c.prompt, c.fileAtCall).t = "string"

\* C2: call_llm with use_cache on a prompt that is a key of the mapping in
\* the cache file returns exactly the string stored for the key and makes no
\* backend call, whatever the provider.
C2_HitReturnsStored ==
    \A c \in Calls :
        StoredString(c) =>
            /\ c.outcome = "return"
            /\ c.value = PyStr(StoredFor(c.prompt, c.fileAtCall).v)
            /\ c.netCalls = 0
            /\ c.callsAfter = c.callsAt

\* call_llm("hello", True, "azure") on the file {"hello": "world"} has
\* returned "world".
C2_Witness ==
    \E c \in Calls :
        /\ StoredString(c)
        /\ c.prompt = <<"hello">>
        /\ c.provider = <<"azure">>
        /\ c.fileAtCall = File(TRUE, TRUE, JObject(<<HelloWorld>>))
        /\ c.outcome = "return"
        /\ c.value = PyStr(<<"world">>)

\* -- C3 ---------------------------------------------------------------------

\* C3 as claimed: every invocation that is no cache hit performs exactly one
\* network call, whatever prompt, use_cache and provider are.  (Stated for a
\* cache file that is absent or a mapping from strings to strings.)
C3_Original ==
    \A c \in Calls :
        (c.lookup # "hit" /\ ~CorruptFile(c.fileAtCall)) =>
            /\ c.netCalls = 1
            /\ c.callsAfter = c.callsAt + 1

\* The cache lookup did not end the invocation: it was skipped or found no
\* entry.
PassedLookup(c) == ~c.use_cache \/ c.lookup = "miss"

\* C3 amended: an invocation performs exactly one network call when its
\* provider is "azure" and the cache lookup did not end it, whether the
\* backend answers or fails, and none otherwise (a hit, a lookup that raises,
\* the provider "gemini", an unknown provider).
C3_OneCallOnAzureMiss ==
    \A c \in Calls :
        /\ c.netCalls = (IF c.provider = <<"azure">> /\ PassedLookup(c)
                         THEN 1 ELSE 0)
        /\ c.callsAfter = c.callsAt + c.netCalls

\* Both cases have happened: an azure miss with its one call, and a miss
\* with provider "gemini" that made none.
C3_Witness ==
    /\ \E c \in Calls :
          /\ c.provider = <<"azure">> /\ c.lookup = "miss" /\ c.netCalls = 1
    /\ \E c \in Calls :
          /\ c.provider = <<"gemini">> /\ c.lookup = "miss" /\ c.netCalls = 0

\* -- C4 ---------------------------------------------------------------------

\* C4: when the backend answered R and use_cache is set, call_llm returns R
\* whatever happens in update_cache: the entry cannot be set, open fails, the
\* write fails part-way.  Nothing update_cache raises reaches call_llm.
C4_SaveFailureSwallowed ==
    \A c \in Calls :
        (c.use_cache /\ AnsweredWithText(c)) =>
            /\ c.save # "none"
            /\ c.outcome = "return"
            /\ c.value = c.backend.content
            /\ c.exc = NoExc

\* update_cache failed while writing, logged it, and call_llm returned the
\* backend's answer.
C4_Witness ==
    \E c \in Calls :
        /\ c.use_cache /\ AnsweredWithText(c)
        /\ c.save = "write_fail"
        /\ c.fileAfter.text = Garbage
        /\ c.outcome = "return"
        /\ c.value = PyStr(<<"world">>)
        /\ \E r \in LogOf(c) : r.level = "ERROR"

\* -- C5 ---------------------------------------------------------------------

\* C5 as claimed: with use_cache and a corrupt or inaccessible cache file,
\* call_llm never fails because of the cache: the only failures that reach
\* the caller are those of the provider dispatch.
C5_CacheFaultsNeverEscalate ==
    \A c \in Calls :
        (c.use_cache /\ CorruptFile(c.fileAtCall) /\ c.outcome = "raise") =>
            c.exc.type \in ProviderFaults

\* -- C6 ---------------------------------------------------------------------

\* C6: with use_cache and a cache file that is missing, cannot be opened or
\* does not parse, call_llm does not fail on the load: the lookup is a miss
\* on the empty cache and the invocation goes on to the provider dispatch,
\* with one backend call for "azure".
C6_UnloadableIsEmpty ==
    \A c \in Calls :
        (c.use_cache /\ Unloadable(c.fileAtCall)) =>
            /\ c.lookup = "miss"
            /\ c.dispatched
            /\ c.outcome = "raise" => c.exc.type \in ProviderFaults
            /\ c.provider = <<"azure">> => c.netCalls = 1
            /\ (c.provider = <<"azure">> /\ AnsweredWithText(c)) =>
                  c.outcome = "return" /\ c.value = c.backend.content

\* Both cases have happened: a call on an unparseable file and a call on a
\* missing file, each answered by the backend.
C6_Witness ==
    /\ \E c \in Calls :
          /\ c.use_cache /\ c.fileAtCall = File(TRUE, TRUE, Garbage)
          /\ c.lookup = "miss" /\ c.netCalls = 1 /\ c.outcome = "return"
    /\ \E c \in Calls :
          /\ c.use_cache /\ c.fileAtCall = MissingFile
          /\ c.lookup = "miss" /\ c.netCalls = 1 /\ c.outcome = "return"

\* -- C7 ---------------------------------------------------------------------

\* The azure client failed: it raised, or its answer held no completion text.
ClientFailed(c) ==
    /\ c.provider = <<"azure">>
    /\ c.backend.kind # "none"
    /\ ~AnsweredWithText(c)

\* C7: when the azure client fails, the invocation ends in one failure of
\* type Exception whose message is "Azure OpenAI error: " followed by the
\* text of the original error, that message is logged at level ERROR, no
\* value is returned, and the backend got one request, not two.
C7_BackendFailureWrapped ==
    \A c \in Calls :
        ClientFailed(c) =>
            /\ c.outcome = "raise"
            /\ c.value = PyNone
            /\ c.exc.type = "Exception"
            /\ Len(c.exc.msg) > 1
            /\ Head(c.exc.msg) = "Azure OpenAI error: "
            /\ c.backend.kind = "error" => Tail(c.exc.msg) = c.backend.text
            /\ LogRec("ERROR", c.exc.msg) \in LogOf(c)
            /\ c.netCalls = 1
            /\ c.callsAfter = c.callsAt + 1
            /\ c.save = "none"

\* The client raised "timeout" and call_llm raised the wrapped failure.
C7_Witness ==
    \E c \in Calls :
        /\ ClientFailed(c)
        /\ c.backend = Failure(<<"timeout">>)
        /\ c.outcome = "raise"
        /\ c.exc.msg = <<"Azure OpenAI error: ", "timeout">>

\* -- C8 ---------------------------------------------------------------------

\* The invocation raised the failure of the disabled provider.
RaisedNotImplemented(c) ==
    /\ c.outcome = "raise"
    /\ c.exc = Exc("NotImplementedError",
                   <<"Gemini support is currently disabled. Please use 'azure' provider.">>)

\* The cache lookup of an invocation with use_cache finds nothing in the file:
\* the file is missing, unreadable or unparseable, or holds a mapping without
\* the prompt.
NothingStored(c) ==
    \/ Unloadable(c.fileAtCall)
    \/ HoldsMapping(c.fileAtCall) /\ ~KeyOfFile(c.prompt, c.fileAtCall)

\* C8 as claimed: call_llm(prompt, use_cache, "gemini") always fails with
\* NotImplementedError, makes no network call and does not touch the cache
\* file.  (Stated for a cache file that is absent or a mapping from strings
\* to strings.)
C8_Original ==
    \A c \in Calls :
        (c.provider = <<"gemini">> /\ ~CorruptFile(c.fileAtCall)) =>
            /\ RaisedNotImplemented(c)
            /\ c.netCalls = 0
            /\ c.cacheReads = 0
            /\ c.cacheWrites = 0

\* C8 amended: call_llm(prompt, use_cache, "gemini") never makes a network
\* call and never writes the cache file.  Without use_cache it always fails
\* with NotImplementedError and does not touch the cache file.  With
\* use_cache the cache file is read first: a prompt stored there with a
\* string is returned from the cache, and a prompt the file does not hold
\* fails with NotImplementedError.
C8_GeminiAfterCacheCheck ==
    \A c \in Calls :
        c.provider = <<"gemini">> =>
            /\ c.netCalls = 0
            /\ c.callsAfter = c.callsAt
            /\ c.cacheWrites = 0
            /\ c.fileAfter = c.fileAtCall
            /\ ~c.use_cache => RaisedNotImplemented(c) /\ c.cacheReads = 0
            /\ c.use_cache => c.cacheReads = 1
            /\ (c.use_cache /\ NothingStored(c)) => RaisedNotImplemented(c)
            /\ StoredString(c) =>
                  /\ c.outcome = "return"
                  /\ c.value = PyStr(StoredFor(c.prompt, c.fileAtCall).v)

\* Both cases have happened: "gemini" without use_cache failed, and "gemini"
\* with use_cache returned the cached "world".
C8_Witness ==
    /\ \E c \in Calls :
          c.provider = <<"gemini">> /\ ~c.use_cache /\ RaisedNotImplemented(c)
    /\ \E c \in Calls :
          /\ c.provider = <<"gemini">> /\ c.use_cache
          /\ c.outcome = "return" /\ c.value = PyStr(<<"world">>)

\* -- C9 ---------------------------------------------------------------------

UnknownProvider(c) == c.provider \notin {<<"azure">>, <<"gemini">>}

\* The invocation raised ValueError with a message that holds its provider.
RaisedUnsupported(c) ==
    /\ c.outcome = "raise"
    /\ c.exc.type = "ValueError"
    /\ Head(c.exc.msg) = "Unsupported provider: "
    /\ IsSubstring(c.provider, c.exc.msg)

\* C9 as claimed: call_llm with a provider other than "azure" and "gemini"
\* fails before any I/O with a ValueError that names the provider.  (Stated
\* for a cache file that is absent or a mapping from strings to strings.)
C9_Original ==
    \A c \in Calls :
        (UnknownProvider(c) /\ ~CorruptFile(c.fileAtCall)) =>
            /\ RaisedUnsupported(c)
            /\ c.netCalls = 0
            /\ c.cacheReads = 0

\* C9 amended: call_llm with a provider other than "azure" and "gemini"
\* never makes a network call and never writes the cache file.  Without
\* use_cache it always fails, before any access to the cache file, with a
\* ValueError whose message holds the provider.  With use_cache the cache
\* file is read first: a prompt stored there with a string is returned from
\* the cache, and a prompt the file does not hold fails with that ValueError.
C9_UnknownAfterCacheCheck ==
    \A c \in Calls :
        UnknownProvider(c) =>
            /\ c.netCalls = 0
            /\ c.callsAfter = c.callsAt
            /\ c.cacheWrites = 0
            /\ c.fileAfter = c.fileAtCall
            /\ ~c.use_cache => RaisedUnsupported(c) /\ c.cacheReads = 0
            /\ c.use_cache => c.cacheReads = 1
            /\ (c.use_cache /\ NothingStored(c)) => RaisedUnsupported(c)
            /\ StoredString(c) =>
                  /\ c.outcome = "return"
                  /\ c.value = PyStr(StoredFor(c.prompt, c.fileAtCall).v)

\* Both cases have happened: "unknown-provider" without use_cache failed with
\* its name in the message, and with use_cache it returned the cached "world".
C9_Witness ==
    /\ \E c \in Calls :
          /\ UnknownProvider(c) /\ ~c.use_cache /\ RaisedUnsupported(c)
          /\ c.exc.msg = <<"Unsupported provider: ", "unknown-provider">>
    /\ \E c \in Calls :
          /\ UnknownProvider(c) /\ c.use_cache
          /\ c.outcome = "return" /\ c.value = PyStr(<<"world">>)

\* -- C10 --------------------------------------------------------------------

\* Two successive calls call_llm(P, False, "azure") for the same P.
UncachedTwice(n) ==
    /\ ~history[n].use_cache /\ ~history[n + 1].use_cache
    /\ history[n].provider = <<"azure">>
    /\ history[n + 1].provider = <<"azure">>
    /\ history[n + 1].prompt = history[n].prompt

\* C10: two successive calls call_llm(P, False, "azure") send one request
\* each, two in all, also when P is a key of the cache file; neither call
\* reads the cache file.
C10_NoMemoWithoutCache ==
    \A n \in Pairs :
        UncachedTwice(n) =>
            /\ history[n].netCalls = 1
            /\ history[n + 1].netCalls = 1
            /\ history[n].callsAfter = history[n].callsAt + 1
            /\ history[n + 1].callsAt = history[n].callsAfter
            /\ history[n + 1].callsAfter = history[n].callsAt + 2
            /\ history[n].cacheReads = 0 /\ history[n + 1].cacheReads = 0

\* Two uncached calls for "hello" on the file {"hello": "world"} have each
\* been answered by the backend.
C10_Witness ==
    \E n \in Pairs :
        /\ UncachedTwice(n)
        /\ history[n].prompt = <<"hello">>
        /\ history[n].fileAtCall = File(TRUE, TRUE, JObject(<<HelloWorld>>))
        /\ history[n].outcome = "return"
        /\ history[n + 1].outcome = "return"
        /\ backendCalls = 2

\* -- C11 --------------------------------------------------------------------

\* The number of members named P in the object the file holds.
EntriesFor(P, f) ==
    Cardinality({m \in 1..Len(f.text.v) : f.text.v[m].k = P})

\* call_llm(P, True, provider) missed and returned the backend's R, and the
\* next call_llm(P, True, provider) hit the cache.
MissThenHit(n) ==
    /\ history[n].use_cache /\ history[n + 1].use_cache
    /\ history[n + 1].prompt = history[n].prompt
    /\ history[n + 1].provider = history[n].provider
    /\ history[n].lookup = "miss"
    /\ AnsweredWithText(history[n])
    /\ history[n].outcome = "return"
    /\ history[n + 1].lookup = "hit"

\* C11: after a miss on P answered by the backend with R and a following hit
\* on P, the cache file holds exactly one entry named P, the entry's value is
\* R, and loading the file again and looking P up gives R; the hit returned R.
C11_RoundTrip ==
    \A n \in Pairs :
        MissThenHit(n) =>
            LET P == history[n].prompt
                R == history[n].backend.content
                f == history[n + 1].fileAfter
            IN  /\ HoldsMapping(f)
                /\ EntriesFor(P, f) = 1
                /\ StoredFor(P, f) = JString(R.v)
                /\ JsonDecode(f.text).t = "dict"
                /\ \E m \in 1..Len(JsonDecode(f.text).v) :
                       JsonDecode(f.text).v[m] = [k |-> P, val |-> R]
                /\ history[n + 1].outcome = "return"
                /\ history[n + 1].value = R

\* With no cache file at first, call_llm("hello", True, "azure") was answered
\* "world" and the next call for "hello" hit: the file is {"hello": "world"}.
C11_Witness ==
    \E n \in Pairs :
        /\ MissThenHit(n)
        /\ history[n].fileAtCall = MissingFile
        /\ history[n].prompt = <<"hello">>
        /\ history[n].backend = Answer(PyStr(<<"world">>))
        /\ history[n + 1].value = PyStr(<<"world">>)
        /\ file = File(TRUE, TRUE, JObject(<<HelloWorld>>))

\* -- C12 --------------------------------------------------------------------

\* C12: every call_llm invocation that returns, returns a str (never None,
\* never a value of another type); every other invocation ends in an
\* exception.
C12_ReturnsStringOrFails ==
    \A c \in Calls :
        /\ c.outcome \in {"return", "raise"}
        /\ c.outcome = "return" => c.value.t = "str"
        /\ c.outcome = "raise" => c.exc # NoExc

\* -- C13 --------------------------------------------------------------------

\* Thread p takes the step that ends update_cache (and with it call_llm).
EndsUpdate(p) == inv[p].pc = "L108" /\ inv'[p].pc = "idle"

\* The file parses to something that is no mapping (a number, null, a list,
\* a string).
ParsesToOther(f) ==
    f.exists /\ f.readable /\ f.text # Garbage /\ f.text.t # "object"

\* File g holds exactly the mapping of file f with P mapped to R: every key
\* once, P with value R, every other key of f with the value f stores for
\* it, and no key besides.
MappingWith(f, P, R, g) ==
    /\ HoldsMapping(g)
    /\ \A m1, m2 \in 1..Len(g.text.v) :
           g.text.v[m1].k = g.text.v[m2].k => m1 = m2
    /\ \E m \in 1..Len(g.text.v) : g.text.v[m] = Member(P, JString(R))
    /\ \A m \in 1..Len(f.text.v) :
           f.text.v[m].k # P =>
               \E m2 \in 1..Len(g.text.v) :
                   g.text.v[m2] = Member(f.text.v[m].k, StoredFor(f.text.v[m].k, f))
    /\ \A m \in 1..Len(g.text.v) :
           g.text.v[m].k # P =>
               \E m2 \in 1..Len(f.text.v) : f.text.v[m2].k = g.text.v[m].k

\* File g holds exactly the one-entry mapping {P: R}.
OnlyEntry(P, R, g) ==
    g.exists /\ g.text = JObject(<<Member(P, JString(R))>>)

\* What C13 says update_cache(P, R) leaves in the file, given the file f it
\* loaded.
ClaimedResult(f, P, R, g) ==
    IF HoldsMapping(f) THEN MappingWith(f, P, R, g) ELSE OnlyEntry(P, R, g)

\* C13 as claimed: update_cache(P, R) on a file holding the mapping M leaves
\* the file holding exactly M with P mapped to R, and on a missing or corrupt
\* file exactly {P: R}.  (Stated for a file that is absent, cannot be read,
\* does not parse or holds a mapping.)
C13_Original ==
    [][\A p \in Threads :
          (EndsUpdate(p) /\ ~ParsesToOther(inv[p].fileAtLoad)) =>
              ClaimedResult(inv[p].fileAtLoad, inv[p].prompt,
                            inv[p].response_text.v, file')]_vars

\* C13 amended: when the write succeeds, update_cache(P, R) leaves the file
\* holding exactly the loaded mapping M with P mapped to R (keys unique, the
\* other keys with their values), and exactly {P: R} when the file was
\* absent, unreadable or unparseable; when open fails, or the loaded document
\* is no mapping, the file is left as it was; when the write fails after
\* open, the file is left unparseable.
C13_UpdateCacheResult ==
    [][\A p \in Threads :
          EndsUpdate(p) =>
              LET c == history'[Len(history')]
                  f == inv[p].fileAtLoad
              IN  /\ c.prompt = inv[p].prompt
                  /\ c.save \in WriteOutcomes \cup {"type_error"}
                  /\ c.save = "ok" =>
                        /\ ~ParsesToOther(f)
                        /\ ClaimedResult(f, inv[p].prompt,
                                         inv[p].response_text.v, file')
                  /\ c.save = "type_error" => ParsesToOther(f) /\ file' = file
                  /\ ParsesToOther(f) => c.save = "type_error"
                  /\ c.save = "open_fail" => file' = file
                  /\ c.save = "write_fail" =>
                        file'.exists /\ file'.text = Garbage]_vars

\* On the file {"hello": "world"}, one update_cache("bye", "world") has been
\* written, and a second update_cache("bye", "moon") that loaded
\* {"hello": "world", "bye": "world"} has overwritten the entry: the file is
\* {"hello": "world", "bye": "moon"}.
C13_Witness ==
    /\ Len(history) = 2
    /\ history[2].save = "ok"
    /\ history[2].prompt = <<"bye">>
    /\ history[2].fileAtLoad =
           File(TRUE, TRUE, JObject(<<HelloWorld, Member(<<"bye">>, JString(<<"world">>))>>))
    /\ file = File(TRUE, TRUE,
                   JObject(<<HelloWorld, Member(<<"bye">>, JString(<<"moon">>))>>))

\* -- C14 --------------------------------------------------------------------

\* A load of file f finds the entry P -> R.
HoldsEntry(P, R, f) ==
    KeyOfFile(P, f) /\ StoredFor(P, f) = JString(R)

\* The document in file f is a mapping with the entry P -> R (whether or not
\* the file can be opened for reading).
ContainsEntry(P, R, f) ==
    /\ f.exists /\ f.text.t = "object"
    /\ \E m \in 1..Len(f.text.v) : f.text.v[m] = Member(P, JString(R))

\* history[n] and history[n + 1] are call_llm invocations with use_cache for
\* different prompts, neither a key of the cache file when the invocation
\* started; both were answered, both wrote the cache file with success and
\* both returned.  history[n] wrote first.
BothStored(n) ==
    /\ history[n].use_cache /\ history[n + 1].use_cache
    /\ history[n].prompt # history[n + 1].prompt
    /\ ~KeyOfFile(history[n].prompt, history[n].fileAtCall)
    /\ ~KeyOfFile(history[n + 1].prompt, history[n + 1].fileAtCall)
    /\ AnsweredWithText(history[n]) /\ AnsweredWithText(history[n + 1])
    /\ history[n].save = "ok" /\ history[n + 1].save = "ok"
    /\ history[n].outcome = "return" /\ history[n + 1].outcome = "return"

\* The update of history[n] is lost: both invocations returned their answer
\* and the file holds the entry of history[n + 1] without that of history[n].
LostUpdate(n) ==
    /\ BothStored(n)
    /\ ContainsEntry(history[n + 1].prompt, history[n + 1].value.v, file)
    /\ \A m \in 1..Len(file.text.v) : file.text.v[m].k # history[n].prompt

\* C14: nothing merges the writes of two invocations that store different
\* prompts P1 and P2: both return their answer, and the file the later writer
\* leaves holds its own entry and holds the earlier writer's entry exactly
\* when the later writer loaded the file after the earlier one wrote it.  An
\* update_cache that loaded before the other's write overwrites it, so the
\* file can end with one entry of the two (C14_Witness).
C14_LastWriterWins ==
    \A n \in Pairs :
        BothStored(n) =>
            LET c1 == history[n]
                c2 == history[n + 1]
            IN  /\ c1.value = c1.backend.content
                /\ c2.value = c2.backend.content
                /\ ContainsEntry(c1.prompt, c1.value.v, c1.fileAfter)
                /\ ContainsEntry(c2.prompt, c2.value.v, c2.fileAfter)
                /\ ContainsEntry(c1.prompt, c1.value.v, c2.fileAfter)
                       <=> HoldsEntry(c1.prompt, c1.value.v, c2.fileAtLoad)

\* With no cache file at first, call_llm("hello", True, "azure") and
\* call_llm("bye", True, "azure") both loaded an empty cache, both wrote and
\* both returned: the file is {"bye": "moon"} and the entry for "hello" is
\* lost.
C14_Witness ==
    /\ Len(history) = 2
    /\ LostUpdate(1)
    /\ history[1].prompt = <<"hello">> /\ history[1].value = PyStr(<<"world">>)
    /\ history[2].prompt = <<"bye">> /\ history[2].value = PyStr(<<"moon">>)
    /\ history[1].fileAtCall = MissingFile
    /\ file = File(TRUE, TRUE, JObject(<<Member(<<"bye">>, JString(<<"moon">>))>>))

\* -- C15 --------------------------------------------------------------------

\* The invocations that have started: those that ended and those in progress.
Started == Calls \cup {inv[p] : p \in {q \in Threads : inv[q].pc # "idle"}}

\* The PROMPT record of an invocation for prompt P.
PromptRecord(P) == LogRec("INFO", <<"PROMPT: ">> \o P)

\* Thread p enters call_llm.
Enters(p) == inv[p].pc = "idle" /\ inv'[p].pc # "idle"

\* C15: every call_llm invocation, however it goes on (hit, miss, backend
\* failure, "gemini", unknown provider), has appended the PROMPT record of its
\* prompt to the log as the first thing it did: the record is the first the
\* invocation wrote, and when it is written the invocation has read no cache
\* file, sent no request and written nothing else.  The log only grows: each
\* step keeps the records there are and appends.
C15_PromptLoggedFirst ==
    /\ [](\A c \in Started :
             /\ c.logAt < Len(log)
             /\ log[c.logAt + 1] = PromptRecord(c.prompt))
    /\ [][/\ Len(log') >= Len(log)
          /\ SubSeq(log', 1, Len(log)) = log
          /\ \A p \in Threads :
                Enters(p) =>
                    /\ log' = Append(log, PromptRecord(inv'[p].prompt))
                    /\ inv'[p].logAt = Len(log)
                    /\ inv'[p].cacheReads = 0 /\ inv'[p].netCalls = 0
                    /\ file' = file /\ backendCalls' = backendCalls]_vars

\* A call_llm("hello", True, "unknown-provider") that hit the cache and a
\* call_llm("bye", False, "gemini") that raised NotImplementedError have
\* ended: the log starts with the PROMPT record of the first and holds that
\* of the second where the second started.
C15_Witness ==
    /\ Len(history) = 2
    /\ history[1].lookup = "hit"
    /\ history[1].prompt = <<"hello">>
    /\ history[1].provider = <<"unknown-provider">>
    /\ history[2].exc.type = "NotImplementedError"
    /\ history[2].prompt = <<"bye">> /\ ~history[2].use_cache
    /\ log[1] = PromptRecord(<<"hello">>)
    /\ log[history[2].logAt + 1] = PromptRecord(<<"bye">>)
    /\ history[2].logAt = history[1].logEnd

\* -- C16 --------------------------------------------------------------------

\* The invocation opened the cache file for writing or left it other than it
\* found it.
TouchedFile(c) == c.cacheWrites > 0 \/ c.fileAfter # c.fileAtCall

\* C16: an invocation of call_llm writes the cache file only if it had
\* use_cache set, missed the cache and got an answer from the azure backend.
\* Every other invocation leaves the file as it found it: a cache hit, any
\* invocation without use_cache (which does not read the file either), a
\* backend failure, "gemini" and an unknown provider.
C16_WritesOnlyOnAnsweredMiss ==
    \A c \in Calls :
        /\ TouchedFile(c) =>
              /\ c.use_cache
              /\ c.lookup = "miss"
              /\ c.provider = <<"azure">>
              /\ AnsweredWithText(c)
              /\ c.outcome = "return"
        /\ ~c.use_cache => c.cacheReads = 0 /\ ~TouchedFile(c)
        /\ c.lookup \in {"hit", "raise"} => ~TouchedFile(c)
        /\ c.outcome = "raise" => ~TouchedFile(c)
        /\ c.provider # <<"azure">> => ~TouchedFile(c)

\* With no cache file, call_llm("hello", False, "azure") was answered and
\* left no file; then call_llm("hello", True, "azure") missed, was answered
\* "world" and wrote {"hello": "world"}.
C16_Witness ==
    /\ Len(history) = 2
    /\ ~history[1].use_cache /\ AnsweredWithText(history[1])
    /\ history[1].provider = <<"azure">>
    /\ history[1].fileAtCall = MissingFile
    /\ history[1].fileAfter = MissingFile
    /\ history[2].use_cache /\ history[2].lookup = "miss"
    /\ history[2].cacheWrites = 1
    /\ history[2].fileAtCall = MissingFile
    /\ history[2].fileAfter = File(TRUE, TRUE, JObject(<<HelloWorld>>))

\* -- C17 --------------------------------------------------------------------

\* C17: with one thread, the cache only grows: every entry P -> R that can be
\* read from the cache file when an invocation for another prompt starts can
\* be read from it with the same value when the invocation has ended, also
\* when the invocation's write of the file failed.
C17_CacheOnlyGrows ==
    \A c \in Calls :
        \A P \in Prompts \ {c.prompt} :
            KeyOfFile(P, c.fileAtCall) =>
                /\ KeyOfFile(P, c.fileAfter)
                /\ StoredFor(P, c.fileAfter) = StoredFor(P, c.fileAtCall)

\* -- C18 --------------------------------------------------------------------

\* The cache file as it was before the first invocation: the file the
\* invocation that wrote the first log record found.
InitialFile ==
    IF started = 0 THEN file
    ELSE (CHOOSE c \in Started : c.logAt = 0).fileAtCall

\* The entries of the document in file f.
EntriesOf(f) ==
    IF f.exists /\ f.text.t = "object"
    THEN {f.text.v[m] : m \in 1..Len(f.text.v)}
    ELSE {}

\* The backend returned R for prompt P in an invocation with use_cache.
BackendReturned(P, R) ==
    \E c \in Calls :
        /\ c.use_cache
        /\ c.prompt = P
        /\ c.provider = <<"azure">>
        /\ AnsweredWithText(c)
        /\ c.backend.content = R

\* C18: at every point of every interleaving of call_llm invocations, each
\* entry P -> R of the cache file is an entry of the initial file or a pair
\* for which the backend returned R to an invocation call_llm(P, True,
\* "azure"): nothing is stored under another prompt, nothing for a backend
\* call that failed.
C18_EntriesHaveProvenance ==
    \A e \in EntriesOf(file) :
        \/ e \in EntriesOf(InitialFile)
        \/ /\ e.val.t = "string"
           /\ BackendReturned(e.k, PyStr(e.val.v))

\* On the file {"hello": "world"}, two invocations for "bye" missed; one was
\* answered "moon" and stored it, the other's backend call failed: the file
\* is {"hello": "world", "bye": "moon"}.
C18_Witness ==
    /\ Len(history) = 2
    /\ InitialFile = File(TRUE, TRUE, JObject(<<HelloWorld>>))
    /\ file = File(TRUE, TRUE,
                   JObject(<<HelloWorld, Member(<<"bye">>, JString(<<"moon">>))>>))
    /\ \E n, m \in 1..2 :
          /\ history[n].prompt = <<"bye">> /\ history[n].save = "ok"
          /\ history[n].backend = Answer(PyStr(<<"moon">>))
          /\ history[m].prompt = <<"bye">> /\ history[m].use_cache
          /\ history[m].backend.kind = "error"
          /\ history[m].outcome = "raise"

====
